---------------------------- MODULE Spec2Model ----------------------------
(***************************************************************************)
(* Model of the e-mail campaign pipeline of src/main.py: the JSON history  *)
(* store, the CSV row parser, and the EmailCampaignManager run loop, run   *)
(* by a sequence of operating-system processes that share one history     *)
(* file.                                                                   *)
(*                                                                         *)
(* Text is modelled as a sequence of tokens.  The tokens " ", "," and "@"  *)
(* are the characters the code inspects; every other token is an opaque    *)
(* block of characters that contains none of them.                         *)
(***************************************************************************)
EXTENDS Integers, Sequences, FiniteSets, TLC

(* Number of processes (program invocations) explored. *)
MaxRuns == 2

-----------------------------------------------------------------------------
(* Text helpers: str.strip, str.split(','), ', '.join, str.lower, `in`.    *)

Last(s) == s[Len(s)]
Front(s) == SubSeq(s, 1, Len(s) - 1)

RECURSIVE LStrip(_)
LStrip(s) == IF s = <<>> THEN s
             ELSE IF Head(s) = " " THEN LStrip(Tail(s)) ELSE s

RECURSIVE RStrip(_)
RStrip(s) == IF s = <<>> THEN s
             ELSE IF Last(s) = " " THEN RStrip(Front(s)) ELSE s

Strip(s) == RStrip(LStrip(s))

Contains(s, c) == \E k \in 1..Len(s) : s[k] = c

(* s.split(','): the pieces between commas, empty pieces included. *)
RECURSIVE SplitComma(_, _)
SplitComma(s, cur) ==
    IF s = <<>> THEN <<cur>>
    ELSE IF Head(s) = "," THEN <<cur>> \o SplitComma(Tail(s), <<>>)
         ELSE SplitComma(Tail(s), Append(cur, Head(s)))

(* ', '.join(parts) *)
RECURSIVE JoinCommaSpace(_)
JoinCommaSpace(parts) ==
    IF parts = <<>> THEN <<>>
    ELSE IF Len(parts) = 1 THEN parts[1]
         ELSE parts[1] \o <<",", " ">> \o JoinCommaSpace(Tail(parts))

(* str.lower on one opaque block. *)
LowerTok(t) == CASE t = "Tutorial" -> "tutorial"
                 [] t = "TUTORIAL" -> "tutorial"
                 [] t = "Palestra" -> "palestra"
                 [] t = "S" -> "s"
                 [] OTHER -> t

Lower(s) == [k \in 1..Len(s) |-> LowerTok(s[k])]

-----------------------------------------------------------------------------
(* CsvParser *)

PALESTRA == "palestra"
TUTORIAL == "tutorial"

Speaker(name, email, title, theme, all_authors, activity_type) ==
    [name |-> name, email |-> email, title |-> title, theme |-> theme,
     all_authors |-> all_authors, activity_type |-> activity_type]

(* A row is a record with the six columns the parser reads; a column that  *)
(* is missing from the sheet reads as the empty text (row.get(..., '')).   *)
_extract_authors(row) ==
    LET a1 == Strip(row.AUTOR1)
        a2 == Strip(row.AUTOR2)
        a3 == Strip(row.AUTOR3)
    IN  (IF a1 # <<>> THEN <<a1>> ELSE <<>>) \o
        (IF a2 # <<>> THEN <<a2>> ELSE <<>>) \o
        (IF a3 # <<>> THEN <<a3>> ELSE <<>>)

_get_activity_type(activity) ==
    IF Lower(activity) = <<"tutorial">> THEN TUTORIAL ELSE PALESTRA

StripAll(parts) == [k \in 1..Len(parts) |-> Strip(parts[k])]

_parse_emails_nosplit(email) == <<email>>

_parse_emails(email) ==
    IF Contains(email, ",") THEN StripAll(SplitComma(email, <<>>))
    ELSE <<email>>

(* csv.DictReader gives None for every column a short row does not reach  *)
(* (a column missing from the header gives the default '' instead); the    *)
(* block "<None>" stands for that value and is no text.                    *)
NoneCell == <<"<None>">>

Columns == {"ATIVIDADE", "TEMA", "EMAIL", "AUTOR1", "AUTOR2", "AUTOR3"}

(* _parse_row and _extract_authors call .strip() on all six columns before *)
(* anything else: None has no strip, AttributeError.                       *)
RowRaises(row) == \E c \in Columns : row[c] = NoneCell

RECURSIVE RowSpeakers(_, _, _, _, _)
RowSpeakers(emails, k, authors, theme, activity_type) ==
    IF k > Len(emails) THEN <<>>
    ELSE (IF Contains(emails[k], "@")
          THEN <<Speaker(IF k <= Len(authors) THEN authors[k] ELSE authors[1],
                         emails[k], theme, theme,
                         IF Len(authors) > 1 THEN JoinCommaSpace(authors)
                                             ELSE authors[1],
                         activity_type)>>
          ELSE <<>>)
         \o RowSpeakers(emails, k + 1, authors, theme, activity_type)

_parse_row(row) ==
    LET activity == Strip(row.ATIVIDADE)
        theme    == Strip(row.TEMA)
        email    == Strip(row.EMAIL)
        authors  == _extract_authors(row)
    IN  IF activity = <<>> \/ theme = <<>> \/ email = <<>> \/ authors = <<>>
        THEN <<>>
        ELSE RowSpeakers(_parse_emails(email), 1, authors, theme,
                         _get_activity_type(activity))

RECURSIVE parse(_)
parse(rows) == IF rows = <<>> THEN <<>>
               ELSE _parse_row(Head(rows)) \o parse(Tail(rows))

-----------------------------------------------------------------------------
(* EmailTemplate.  The fixed text of TEMPLATE between two slots is one     *)
(* block, written here as a short name of that text; nothing in the code   *)
(* inspects the rendered message.                                          *)

CoauthorsLabel == "[newline] Coautores: "

(* EmailTemplate._build_context *)
_build_context(speaker) ==
    LET is_tutorial == speaker.activity_type = TUTORIAL
    IN  [name |-> speaker.name,
         title |-> speaker.title,
         theme |-> speaker.theme,
         activity |-> <<speaker.activity_type>>,
         article |-> IF is_tutorial THEN <<"seu">> ELSE <<"sua">>,
         approval_suffix |-> IF is_tutorial THEN <<"o">> ELSE <<"a">>,
         role |-> IF is_tutorial THEN <<"instrutor(a) de tutorial">>
                                 ELSE <<"palestrante">>,
         duration_label |-> IF is_tutorial THEN <<"Duracao do tutorial">>
                                           ELSE <<"Duracao da palestra">>,
         coauthors_info |-> IF Contains(speaker.all_authors, ",")
                            THEN <<CoauthorsLabel>> \o speaker.all_authors
                            ELSE <<>>]

(* EmailTemplate.render: TEMPLATE.format with the context *)
render(speaker) ==
    LET c == _build_context(speaker)
    IN  <<"Prezad@ ">> \o c.name \o <<"[satisfacao]">> \o c.article
        \o <<"[space]">> \o c.activity \o <<"[quote]">> \o c.title
        \o <<"[foi aprovad]">> \o c.approval_suffix
        \o <<"[evento, proximos passos]">> \o c.role
        \o <<"[confirmacao, informacoes]">> \o c.duration_label
        \o <<"[45 minutos, Tema: ]">> \o c.theme \o <<"[newline]">>
        \o c.coauthors_info \o <<"[despedida]">>

-----------------------------------------------------------------------------
(* JsonDataStore.  A JSON value read from the history file is either not   *)
(* an object (t = "other": array, number, string, null) or an object with  *)
(* the keys sent_titles, details and last_update.  A key holds a list      *)
(* (tag "list"), is missing (tag "missing"), or holds a value that is no   *)
(* iterable container (tag "scalar": a number, null, true).  An element of *)
(* details is an object with the key titulo (kind "entry") or anything     *)
(* else (kind "junk").                                                     *)

Field(tag, v) == [tag |-> tag, v |-> v]
JObject(sent, details, upd) ==
    [t |-> "obj", sent |-> sent, details |-> details, upd |-> upd]
JOther == [t |-> "other", sent |-> Field("missing", <<>>),
           details |-> Field("missing", <<>>), upd |-> FALSE]

Entry(email, nome, titulo) ==
    [kind |-> "entry", email |-> email, nome |-> nome, titulo |-> titulo]
Junk == [kind |-> "junk", email |-> <<>>, nome |-> <<>>, titulo |-> <<>>]

(* The file: absent, bytes that are not JSON (also an empty or a partly    *)
(* written file), or the text of a JSON value.                             *)
FileAbsent  == [kind |-> "absent", val |-> JOther]
FileGarbage == [kind |-> "garbage", val |-> JOther]
FileJson(val) == [kind |-> "json", val |-> val]

EmptyData == JObject(Field("list", <<>>), Field("list", <<>>), FALSE)

Range(s) == {s[k] : k \in 1..Len(s)}

(* JsonDataStore._load_data: a missing file and every exception of open or *)
(* json.load give the empty structure; any JSON value is returned as is.   *)
_load_data(f) == IF f.kind = "json" THEN f.val ELSE EmptyData

(* set(self._data.get('sent_titles', [])) *)
SentTitlesOf(d) == IF d.sent.tag = "list" THEN Range(d.sent.v) ELSE {}

(* JsonDataStore.load raises: .get on a non-object, set() of a            *)
(* non-iterable, or the loop over a non-iterable details.                  *)
LoadRaises(d) ==
    \/ d.t # "obj"
    \/ d.sent.tag = "scalar"
    \/ /\ SentTitlesOf(d) = {}
       /\ d.details.tag = "scalar"

(* JsonDataStore.load, where it does not raise. *)
load(d) ==
    IF SentTitlesOf(d) # {} THEN SentTitlesOf(d)
    ELSE IF d.details.tag = "list"
         THEN {e.titulo : e \in {x \in Range(d.details.v) : x.kind = "entry"}}
         ELSE {}

(* list(a_set): the elements once each, in an order Python does not fix.   *)
ListsOf(S) == {q \in [1..Cardinality(S) -> S] : Range(q) = S}

(* save, lines 143-144: the dedup set with the new title. *)
SaveTitlesNoAdd(d, speaker) == load(d)

SaveTitles(d, speaker) == load(d) \cup {speaker.title}

(* JsonDataStore.save up to the append, lines 146-150: the new self._data. *)
(* order is the list(sent_titles) Python produced.                         *)
SaveData(d, speaker, order) ==
    JObject(Field("list", order),
            IF d.details.tag = "missing" THEN Field("list", <<>>) ELSE d.details,
            TRUE)

(* self._data['details'].append(...) raises on a value that is no list. *)
AppendRaises(d) == d.details.tag = "scalar"

AppendDetail(d, speaker) ==
    [d EXCEPT !.details =
        Field("list", Append(d.details.v,
                             Entry(speaker.email, speaker.name, speaker.title)))]

(* json.dump(self._data, f) completed: the file holds the structure. *)
Dump(d) == FileJson(d)

-----------------------------------------------------------------------------
(* EmailConfig.  The environment gives each variable as unset, set to the  *)
(* empty string, or set to a value; a config field is TRUE when it holds   *)
(* a non-empty value.                                                      *)

Env(server, port, email, password, name, url) ==
    [SMTP_SERVER |-> server, SMTP_PORT |-> port, GMAIL_EMAIL |-> email,
     GMAIL_APP_PASSWORD |-> password, SENDER_NAME |-> name, SHEET_URL |-> url]

(* int(os.getenv('SMTP_PORT', 587)) raises ValueError on the empty string. *)
FromEnvRaises(e) == e.SMTP_PORT = "empty"

from_env(e) ==
    [smtp_server     |-> e.SMTP_SERVER # "empty",
     smtp_port       |-> e.SMTP_PORT # "empty",
     sender_email    |-> e.GMAIL_EMAIL = "set",
     sender_password |-> e.GMAIL_APP_PASSWORD = "set",
     sender_name     |-> e.SENDER_NAME # "empty",
     sheet_url       |-> e.SHEET_URL = "set"]

validate_no_url(c) ==
    (IF ~c.sender_email THEN <<"GMAIL_EMAIL">> ELSE <<>>) \o
    (IF ~c.sender_password THEN <<"GMAIL_APP_PASSWORD">> ELSE <<>>)

(* EmailConfig.validate: the list of diagnostics. *)
validate(c) ==
    (IF ~c.sender_email THEN <<"GMAIL_EMAIL">> ELSE <<>>) \o
    (IF ~c.sender_password THEN <<"GMAIL_APP_PASSWORD">> ELSE <<>>) \o
    (IF ~c.sheet_url THEN <<"SHEET_URL">> ELSE <<>>)

-----------------------------------------------------------------------------
(* Inputs: sheet rows, rosters, environments and initial history files.    *)

Row(atividade, tema, email, a1, a2, a3) ==
    [ATIVIDADE |-> atividade, TEMA |-> tema, EMAIL |-> email,
     AUTOR1 |-> a1, AUTOR2 |-> a2, AUTOR3 |-> a3]

AsyncPatterns == <<"Async Patterns">>
IntroToTypes  == <<"Intro to Types">>

RowTalk == Row(<<"Palestra">>, <<"Async Patterns">>,
               <<"bob", "@", "x.com">>, <<"Bob">>, <<>>, <<>>)
RowTutorial == Row(<<"Tutorial">>, <<" ", "Intro to Types", " ">>,
                   <<"carl", "@", "x.com", ",", "dee", "@", "y.com">>,
                   <<"Carl">>, <<"Dee">>, <<>>)
(* one author, two addresses: the second address falls back to authors[0] *)
RowFallback == Row(<<"TUTORIAL">>, <<"Async Patterns">>,
                   <<"a", "@", "x.com", ",", " ", "b", "@", "y.com">>,
                   <<" ", "Alice">>, <<" ">>, <<>>)
(* rows the parser drops: no theme; no address with an @ *)
RowNoTheme == Row(<<"Palestra">>, <<" ">>, <<"eve", "@", "x.com">>,
                  <<"Eve">>, <<>>, <<>>)
RowNoAt == Row(<<"Palestra">>, <<"Intro to Types">>, <<"nobody">>,
               <<"Nobody">>, <<>>, <<>>)

Rosters == { <<RowTalk, RowTutorial>>,
             <<RowTutorial>>,
             <<RowNoTheme, RowFallback>>,
             <<RowNoAt>> }

EnvComplete == Env("set", "set", "set", "set", "set", "set")
EnvCases == { EnvComplete,
              Env("unset", "unset", "set", "set", "unset", "set"),
              Env("empty", "set", "set", "set", "set", "set"),
              Env("set", "empty", "set", "set", "set", "set"),
              Env("set", "set", "set", "set", "empty", "set"),
              Env("set", "set", "unset", "set", "set", "set"),
              Env("set", "set", "set", "empty", "set", "set"),
              Env("set", "set", "empty", "set", "set", "unset") }

OldEntry == Entry(<<"bob", "@", "x.com">>, <<"Bob">>, AsyncPatterns)

InitFiles ==
    { FileAbsent,
      FileGarbage,
      FileJson(JOther),
      FileJson(EmptyData),
      FileJson(JObject(Field("list", <<AsyncPatterns>>),
                       Field("list", <<OldEntry>>), TRUE)),
      FileJson(JObject(Field("list", <<AsyncPatterns, AsyncPatterns>>),
                       Field("missing", <<>>), FALSE)),
      FileJson(JObject(Field("missing", <<>>),
                       Field("list", <<Junk, OldEntry>>), FALSE)),
      FileJson(JObject(Field("scalar", <<>>), Field("list", <<>>), FALSE)),
      FileJson(JObject(Field("list", <<>>), Field("scalar", <<>>), FALSE)),
      FileJson(JObject(Field("list", <<IntroToTypes>>),
                       Field("scalar", <<>>), FALSE)) }

-----------------------------------------------------------------------------
(* State.                                                                  *)
(*   file      the durable history file                                    *)
(*   pc        where the current process stands ("off": none is running)   *)
(*   config    EmailConfig of the process                                  *)
(*   data      JsonDataStore._data                                         *)
(*   seen      EmailCampaignManager.sent_titles                            *)
(*   dry       the dry_run argument of run()                               *)
(*   roster    the rows of the downloaded sheet                            *)
(*   speakers, new   the parsed Records and new_speakers                   *)
(*   idx, success, failures   the loop of _process_speakers                *)
(* Observations of the current run, kept for the properties:               *)
(*   diag      diagnostics logged by run() for the configuration           *)
(*   fetched   the roster download was attempted                           *)
(*   asked     times the operator was asked to confirm                     *)
(*   answer    what the operator typed at the prompt (<<>>: nothing yet)   *)
(*   attempts  indices in new of the Records handed to EmailService.send   *)
(*   results   for each Record of new processed so far, what happened      *)
(*   writes    titles for which save opened the file for writing           *)
(*   err       the exception that left run() or the constructor            *)
(*   summary   the summary was logged                                      *)
(*   killedAt  where the process stood when it was killed                  *)
(*   file0, seen0, ok0   file, seen set and okCount when the process began *)
(*   bodies    the messages EmailTemplate.render produced, in order        *)
(* Observations over all runs:                                             *)
(*   runs      processes started                                           *)
(*   okCount   per title, dispatches that returned true                    *)
(*   crashed   some process was killed, or died of an exception of save    *)

(* Used by the store specification only:                                   *)
(*   calls     the calls made on JsonDataStore objects, with what each     *)
(*             returned and the length of the detail log after it          *)

VARIABLES file, pc, config, data, seen, dry, roster, speakers, new, idx, success,
          failures, diag, fetched, asked, answer, attempts, results, writes,
          err, summary, killedAt, file0, seen0, ok0, runs, okCount, crashed,
          bodies, calls

vars == <<file, pc, config, data, seen, dry, roster, speakers, new, idx, success,
          failures, diag, fetched, asked, answer, attempts, results, writes,
          err, summary, killedAt, file0, seen0, ok0, runs, okCount, crashed,
          bodies, calls>>

Titles == {AsyncPatterns, IntroToTypes}

NoConfig == from_env(EnvComplete)

runObs == <<diag, fetched, asked, answer, attempts, results, writes, err,
            summary, killedAt>>
loopVars == <<roster, speakers, new, idx, success, failures>>

Init ==
    /\ file \in InitFiles
    /\ pc = "off"
    /\ config = NoConfig
    /\ data = EmptyData
    /\ seen = {}
    /\ dry = FALSE
    /\ roster = <<>>
    /\ speakers = <<>>
    /\ new = <<>>
    /\ idx = 1
    /\ success = 0
    /\ failures = 0
    /\ diag = <<>>
    /\ fetched = FALSE
    /\ asked = 0
    /\ answer = <<>>
    /\ attempts = <<>>
    /\ results = <<>>
    /\ writes = <<>>
    /\ err = "none"
    /\ summary = FALSE
    /\ killedAt = "none"
    /\ file0 = file
    /\ seen0 = {}
    /\ ok0 = [k \in Titles |-> 0]
    /\ runs = 0
    /\ okCount = [k \in Titles |-> 0]
    /\ crashed = FALSE
    /\ bodies = <<>>
    /\ calls = <<>>

-----------------------------------------------------------------------------
(* Operations.                                                             *)

Ended == {"off", "done", "raised", "dead", "killed"}

(* What the operator may type at the confirmation prompt. *)
Answers == { <<"s">>, <<"S">>, <<" ", "s", " ">>, <<"n">>, <<>>, <<"sim">> }

(* Application.__init__: the configuration is read, the store reads the    *)
(* file, the manager loads the seen set.  An exception of from_env or of   *)
(* load ends the process before run() is entered.                          *)
AppStart(e) ==
    /\ pc \in Ended
    /\ runs < MaxRuns
    /\ runs' = runs + 1
    /\ diag' = <<>> /\ fetched' = FALSE /\ asked' = 0 /\ answer' = <<>>
    /\ attempts' = <<>> /\ results' = <<>> /\ writes' = <<>>
    /\ summary' = FALSE /\ killedAt' = "none"
    /\ dry' = FALSE /\ roster' = <<>> /\ speakers' = <<>> /\ new' = <<>>
    /\ idx' = 1 /\ success' = 0 /\ failures' = 0
    /\ file0' = file
    /\ ok0' = okCount
    /\ IF FromEnvRaises(e)
       THEN /\ config' = NoConfig /\ data' = EmptyData /\ seen' = {}
            /\ pc' = "dead" /\ err' = "from_env"
       ELSE /\ config' = from_env(e)
            /\ data' = _load_data(file)
            /\ IF LoadRaises(data')
               THEN seen' = {} /\ pc' = "dead" /\ err' = "load"
               ELSE seen' = load(data') /\ pc' = "ready" /\ err' = "none"
    /\ seen0' = seen'
    /\ bodies' = <<>>
    /\ UNCHANGED <<file, okCount, crashed, calls>>

(* EmailCampaignManager.run, lines 363-370: the configuration gate. *)
RunValidate(d) ==
    /\ pc = "ready"
    /\ dry' = d
    /\ diag' = validate(config)
    /\ pc' = IF diag' # <<>> THEN "done" ELSE "fetch"
    /\ UNCHANGED <<file, config, data, seen, loopVars, fetched, asked, answer,
                   attempts, results, writes, err, summary, killedAt, file0,
                   seen0, ok0, runs, bodies, calls, okCount, crashed>>

_filter_new_speakers_all(all) == all

(* _filter_new_speakers, line 394 *)
_filter_new_speakers(all) == SelectSeq(all, LAMBDA s : s.title \notin seen)

FetchFailsSwallowed ==
    /\ pc = "fetch"
    /\ fetched' = TRUE
    /\ err' = "ingest"
    /\ pc' = "done"
    /\ UNCHANGED <<file, config, data, seen, dry, loopVars, diag, asked,
                   answer, attempts, results, writes, summary, killedAt,
                   file0, seen0, ok0, runs, bodies, calls, okCount, crashed>>

(* run, lines 373-374 raising: download or parse fails; the exception is   *)
(* logged and raised again.                                                *)
FetchFails ==
    /\ pc = "fetch"
    /\ fetched' = TRUE
    /\ err' = "ingest"
    /\ pc' = "raised"
    /\ UNCHANGED <<file, config, data, seen, dry, loopVars, diag, asked,
                   answer, attempts, results, writes, summary, killedAt,
                   file0, seen0, ok0, runs, bodies, calls, okCount, crashed>>

(* run, lines 373-385: the roster is fetched and parsed, new is computed;  *)
(* with nothing new run returns, a live run asks for confirmation.         *)
FetchParse(rows) ==
    /\ pc = "fetch"
    /\ fetched' = TRUE
    /\ roster' = rows
    /\ speakers' = parse(rows)
    /\ new' = _filter_new_speakers(speakers')
    /\ IF new' = <<>> THEN pc' = "done" /\ asked' = asked
       ELSE IF ~dry THEN pc' = "confirm" /\ asked' = asked + 1
            ELSE pc' = "loop" /\ asked' = asked
    /\ UNCHANGED <<file, config, data, seen, dry, idx, success, failures,
                   diag, answer, attempts, results, writes, err, summary,
                   killedAt, file0, seen0, ok0, runs, bodies, calls, okCount, crashed>>

_confirm_send_default_yes(typed) == Lower(Strip(typed)) # <<"n">>

(* _confirm_send: input(...).strip().lower() == 's' *)
_confirm_send(typed) == Lower(Strip(typed)) = <<"s">>

Confirm(typed) ==
    /\ pc = "confirm"
    /\ answer' = <<typed>>
    /\ pc' = IF _confirm_send(typed) THEN "loop" ELSE "done"
    /\ UNCHANGED <<file, config, data, seen, dry, loopVars, diag, fetched,
                   asked, attempts, results, writes, err, summary, killedAt,
                   file0, seen0, ok0, runs, bodies, calls, okCount, crashed>>

SendDecisionNoSeen(speaker, sent_titles, dry_run) ==
    IF dry_run THEN "simulated" ELSE "send"

SendDecisionNoDry(speaker, sent_titles, dry_run) ==
    IF speaker.title \in sent_titles THEN "skipped" ELSE "send"

(* _send_to_speaker, lines 430-443: what is done with a Record. *)
SendDecision(speaker, sent_titles, dry_run) ==
    IF speaker.title \in sent_titles THEN "skipped"
    ELSE IF dry_run THEN "simulated"
         ELSE "send"

(* _process_speakers / _send_to_speaker up to the call of send: a Record   *)
(* whose title is in the seen set counts as a success at once; otherwise   *)
(* the message is rendered, and a dry run counts a success, a live run     *)
(* hands the message to EmailService.send.                                 *)
ProcessNext ==
    /\ pc = "loop"
    /\ idx <= Len(new)
    /\ LET way == SendDecision(new[idx], seen, dry)
       IN  IF way = "send"
           THEN /\ pc' = "sending"
                /\ attempts' = Append(attempts, idx)
                /\ UNCHANGED <<success, idx, results>>
           ELSE /\ success' = success + 1 /\ idx' = idx + 1
                /\ results' = Append(results, way)
                /\ pc' = "loop" /\ attempts' = attempts
    /\ bodies' = IF SendDecision(new[idx], seen, dry) = "skipped" THEN bodies
                 ELSE Append(bodies, render(new[idx]))
    /\ UNCHANGED <<file, config, data, seen, dry, roster, speakers, new, failures,
                   diag, fetched, asked, answer, writes, err, summary,
                   killedAt, file0, seen0, ok0, runs, calls, okCount, crashed>>

SendReturnsAborts(ok) ==
    /\ pc = "sending"
    /\ IF ok
       THEN /\ okCount' = [okCount EXCEPT ![new[idx].title] = @ + 1]
            /\ pc' = "save"
            /\ UNCHANGED <<failures, idx, results, err>>
       ELSE /\ failures' = failures + 1
            /\ results' = Append(results, "failed")
            /\ pc' = "raised" /\ err' = "send"
            /\ UNCHANGED <<idx, okCount>>
    /\ UNCHANGED <<file, config, data, seen, dry, roster, speakers, new,
                   success, diag, fetched, asked, answer, attempts, writes,
                   summary, killedAt, file0, seen0, ok0, runs, bodies, calls, crashed>>

(* EmailService.send returns: false is counted as a failure and the loop   *)
(* goes on; true leads to data_store.save.                                 *)
SendReturns(ok) ==
    /\ pc = "sending"
    /\ IF ok
       THEN /\ okCount' = [okCount EXCEPT ![new[idx].title] = @ + 1]
            /\ pc' = "save"
            /\ UNCHANGED <<failures, idx, results>>
       ELSE /\ failures' = failures + 1 /\ idx' = idx + 1
            /\ results' = Append(results, "failed")
            /\ pc' = "loop"
            /\ okCount' = okCount
    /\ UNCHANGED <<file, config, data, seen, dry, roster, speakers, new, success,
                   diag, fetched, asked, answer, attempts, writes, err,
                   summary, killedAt, file0, seen0, ok0, runs, bodies, calls, crashed>>

(* JsonDataStore.save, lines 143-159: self._data is rebuilt, the entry is  *)
(* appended, the file is opened for writing, which empties it.  The append *)
(* raises when details is no list; open may raise (openOk = FALSE), and    *)
(* then the file is as it was.                                             *)
SaveOpen(order, openOk) ==
    /\ pc = "save"
    /\ order \in ListsOf(SaveTitles(data, new[idx]))
    /\ LET d1 == SaveData(data, new[idx], order)
       IN  IF AppendRaises(d1)
           THEN /\ data' = d1
                /\ pc' = "raised" /\ err' = "save" /\ crashed' = TRUE
                /\ UNCHANGED <<file, writes>>
           ELSE /\ data' = AppendDetail(d1, new[idx])
                /\ IF openOk
                   THEN /\ file' = FileGarbage
                        /\ writes' = Append(writes, new[idx].title)
                        /\ pc' = "dump"
                        /\ UNCHANGED <<err, crashed>>
                   ELSE /\ pc' = "raised" /\ err' = "save" /\ crashed' = TRUE
                        /\ UNCHANGED <<file, writes>>
    /\ UNCHANGED <<config, seen, dry, loopVars, diag, fetched, asked, answer,
                   attempts, results, summary, killedAt, file0, seen0, ok0, runs, bodies, calls,
                   okCount>>

SaveDumpNoAdd ==
    /\ pc = "dump"
    /\ file' = Dump(data)
    /\ seen' = seen
    /\ success' = success + 1
    /\ idx' = idx + 1
    /\ results' = Append(results, "sent")
    /\ pc' = "loop"
    /\ UNCHANGED <<config, data, dry, roster, speakers, new, failures, diag,
                   fetched,
                   asked, answer, attempts, writes, err, summary, killedAt,
                   file0, seen0, ok0, runs, bodies, calls, okCount, crashed>>

(* save, line 160, and _send_to_speaker, lines 449-450: the structure is   *)
(* written, the title joins the seen set, the Record counts as a success.  *)
SaveDump ==
    /\ pc = "dump"
    /\ file' = Dump(data)
    /\ seen' = seen \cup {new[idx].title}
    /\ success' = success + 1
    /\ idx' = idx + 1
    /\ results' = Append(results, "sent")
    /\ pc' = "loop"
    /\ UNCHANGED <<config, data, dry, roster, speakers, new, failures, diag,
                   fetched,
                   asked, answer, attempts, writes, err, summary, killedAt,
                   file0, seen0, ok0, runs, bodies, calls, okCount, crashed>>

SaveDumpFailsSwallowed ==
    /\ pc = "dump"
    /\ pc' = "loop" /\ err' = "save" /\ crashed' = TRUE
    /\ idx' = idx + 1
    /\ failures' = failures + 1
    /\ results' = Append(results, "failed")
    /\ UNCHANGED <<file, config, data, seen, dry, roster, speakers, new,
                   success, diag, fetched, asked, answer, attempts, writes,
                   summary, killedAt, file0, seen0, ok0, runs, bodies, calls,
                   okCount>>

(* json.dump raises while writing (the device is full): the file is left   *)
(* partly written and the exception leaves run().                          *)
SaveDumpFails ==
    /\ pc = "dump"
    /\ pc' = "raised" /\ err' = "save" /\ crashed' = TRUE
    /\ UNCHANGED <<file, config, data, seen, dry, loopVars, diag, fetched,
                   asked, answer, attempts, results, writes, summary,
                   killedAt, file0, seen0, ok0, runs, bodies, calls, okCount>>

(* _process_speakers, line 427: the loop is over, the summary is logged. *)
Summary ==
    /\ pc = "loop"
    /\ idx > Len(new)
    /\ summary' = TRUE
    /\ pc' = "done"
    /\ UNCHANGED <<file, config, data, seen, dry, loopVars, diag, fetched,
                   asked, answer, attempts, results, writes, err, killedAt,
                   file0, seen0, ok0, runs, bodies, calls, okCount, crashed>>

(* The process is killed wherever it stands. *)
Kill ==
    /\ pc \notin Ended
    /\ killedAt' = pc
    /\ pc' = "killed"
    /\ crashed' = TRUE
    /\ UNCHANGED <<file, config, data, seen, dry, loopVars, diag, fetched,
                   asked, answer, attempts, results, writes, err, summary,
                   file0, seen0, ok0, runs, bodies, calls, okCount>>

Next ==
    \/ \E e \in EnvCases : AppStart(e)
    \/ \E d \in BOOLEAN : RunValidate(d)
    \/ FetchFails
    \/ \E rows \in Rosters : FetchParse(rows)
    \/ \E typed \in Answers : Confirm(typed)
    \/ ProcessNext
    \/ \E ok \in BOOLEAN : SendReturns(ok)
    \/ \E order \in UNION {ListsOf(S) : S \in SUBSET Titles},
          openOk \in BOOLEAN : SaveOpen(order, openOk)
    \/ SaveDump
    \/ SaveDumpFails
    \/ Summary
    \/ Kill

Spec == Init /\ [][Next]_vars

-----------------------------------------------------------------------------
(* Properties.                                                             *)

(* What a new JsonDataStore over the file would load, and its detail log. *)
FreshLoad(f) == load(_load_data(f))
DetailLog(f) == _load_data(f).details.v

(* Titles whose send and save both completed in the current run. *)
SentInRun == {new[j].title : j \in {k \in 1..Len(results) : results[k] = "sent"}}

(* run() got past the point where it was called. *)
RunEntered == /\ pc \notin {"off", "dead", "ready"}
              /\ ~(pc = "killed" /\ killedAt = "ready")

(* The scenario of C1: empty history, a live run over the talk row and the *)
(* tutorial row, no dispatch failed, the run reached its summary.          *)
C1Scenario ==
    /\ roster = <<RowTalk, RowTutorial>>
    /\ ~dry
    /\ seen0 = {} /\ DetailLog(file0) = <<>>
    /\ failures = 0
    /\ summary

(* C1 as stated: the scenario yields 3 Records, 3 dispatch attempts,       *)
(* 3 successes, the dedup set {Async Patterns, Intro to Types} and a       *)
(* detail log of length 3.                                                 *)
C1Original ==
    C1Scenario =>
        /\ Len(speakers) = 3
        /\ Len(attempts) = 3
        /\ success = 3
        /\ seen = {AsyncPatterns, IntroToTypes}
        /\ Len(DetailLog(file)) = 3

(* C1 amended: the scenario yields 3 Records, 2 dispatch attempts (the     *)
(* second co-author of the tutorial is skipped), 3 successes, no failure,  *)
(* the dedup set {Async Patterns, Intro to Types} in memory and in the     *)
(* file, and a detail log of length 2.                                     *)
C1EndToEnd ==
    C1Scenario =>
        /\ Len(speakers) = 3
        /\ Len(attempts) = 2
        /\ success = 3
        /\ failures = 0
        /\ seen = {AsyncPatterns, IntroToTypes}
        /\ FreshLoad(file) = {AsyncPatterns, IntroToTypes}
        /\ Len(DetailLog(file)) = 2

C1Witness == C1Scenario /\ success = 3 /\ results = <<"sent", "sent", "skipped">>

(* C2: as long as no process was killed and save never raised, every title *)
(* has at most one dispatch that returned true over all runs, and a live   *)
(* run whose roster holds only titles sent by earlier runs dispatches      *)
(* nothing and leaves the file alone.                                      *)
C2ExactlyOnce ==
    ~crashed =>
        /\ \A k \in Titles : okCount[k] <= 1
        /\ ( /\ ~dry /\ fetched
             /\ \A j \in 1..Len(speakers) : ok0[speakers[j].title] >= 1 )
           => (attempts = <<>> /\ writes = <<>> /\ file = file0)

C2Witness ==
    /\ ~crashed /\ runs = 2 /\ ~dry /\ fetched /\ pc = "done"
    /\ Len(speakers) = 3
    /\ \A j \in 1..Len(speakers) : ok0[speakers[j].title] = 1

(* C3: in a live run, a Record whose title is in the seen set when its     *)
(* turn comes is not dispatched, causes no store write and is counted as   *)
(* a success.                                                              *)
C3DedupPerSubject ==
    [][ ( /\ pc = "loop" /\ ~dry /\ idx <= Len(new)
          /\ new[idx].title \in seen
          /\ pc' # "killed" )
        => ( /\ attempts' = attempts /\ writes' = writes
             /\ file' = file /\ data' = data /\ seen' = seen
             /\ success' = success + 1 /\ failures' = failures
             /\ idx' = idx + 1 /\ okCount' = okCount ) ]_vars

C3Witness ==
    /\ ~dry /\ Len(results) = 2 /\ results[2] = "skipped"
    /\ new[1].email # new[2].email /\ success = 2

(* C4: after a kill, a new load of the file holds every title that was in  *)
(* the store when the process began and every title whose send and save    *)
(* completed in this run (the send in flight is not required).             *)
C4CrashBound ==
    pc = "killed" =>
        /\ ~LoadRaises(_load_data(file))
        /\ (seen0 \cup SentInRun) \subseteq FreshLoad(file)

(* C5: a dry run dispatches nothing and leaves the history file and the    *)
(* in-memory seen set as they were.                                        *)
C5DryRunFrame ==
    dry => /\ attempts = <<>> /\ okCount = ok0
           /\ writes = <<>> /\ file = file0
           /\ seen = seen0

C5Witness == dry /\ summary /\ success = 3 /\ seen0 = {}

(* C6: a dispatch that returns false leaves seen set, store and file as    *)
(* they are, counts one failure and moves to the next Record; no Record is *)
(* handed to send twice in a run; failures counts exactly the failed       *)
(* dispatches; at the summary successes + failures = len(new).             *)
C6State ==
    /\ \A a, b \in 1..Len(attempts) : a # b => attempts[a] # attempts[b]
    /\ failures = Cardinality({k \in 1..Len(results) : results[k] = "failed"})
    /\ summary => success + failures = Len(new)

C6Step ==
    ( pc = "sending" /\ pc' \notin {"save", "killed"} )
    => ( /\ seen' = seen /\ file' = file /\ data' = data
         /\ failures' = failures + 1 /\ success' = success
         /\ idx' = idx + 1 /\ pc' = "loop"
         /\ attempts' = attempts /\ writes' = writes )

C6DispatchFailureLocal == [](C6State) /\ [][C6Step]_vars

C6Witness ==
    /\ ~dry /\ summary /\ Len(results) = 3
    /\ results[1] = "failed" /\ results[2] = "sent" /\ failures = 1

(* C7: when the roster fetch or the parse fails, the error leaves run()    *)
(* and the run has dispatched nothing, asked nothing, and changed neither  *)
(* the seen set nor the file.                                              *)
C7IngestAbort ==
    err = "ingest" =>
        /\ pc = "raised"
        /\ attempts = <<>> /\ results = <<>> /\ okCount = ok0
        /\ writes = <<>> /\ file = file0
        /\ seen = seen0
        /\ asked = 0 /\ ~summary

C7Witness == err = "ingest" /\ runs = 2 /\ seen0 = {AsyncPatterns, IntroToTypes}

(* C8 as stated: when any of the six configuration items is absent, run()  *)
(* logs one diagnostic per missing item and ends without fetching the      *)
(* roster, dispatching or writing.                                         *)
C8Original ==
    (RunEntered /\ \E f \in DOMAIN config : ~config[f]) =>
        /\ Len(diag) = Cardinality({f \in DOMAIN config : ~config[f]})
        /\ ~fetched /\ attempts = <<>> /\ writes = <<>>

Checked == {"sender_email", "sender_password", "sheet_url"}

(* C8 amended: when any of sender address, sender credentials or roster    *)
(* locator is absent, run() logs one diagnostic per missing one of these   *)
(* and returns without fetching the roster, dispatching or writing; when   *)
(* none of the three is absent it logs no diagnostic and goes on to the    *)
(* fetch, whatever host, port and display name hold.                       *)
C8ConfigGate ==
    RunEntered =>
        LET miss == {f \in Checked : ~config[f]}
        IN  /\ Len(diag) = Cardinality(miss)
            /\ miss # {} =>
                 /\ pc = "done" /\ err = "none"
                 /\ ~fetched /\ asked = 0
                 /\ attempts = <<>> /\ writes = <<>>
                 /\ file = file0 /\ seen = seen0
            /\ (miss = {} /\ pc = "done") => fetched

C8Witness == RunEntered /\ Len(diag) = 2 /\ pc = "done"

(* C9: whatever the file holds, constructing the store and calling load()  *)
(* raises nothing, and an absent or corrupt file gives the empty set.      *)
C9StoreNeverFatal ==
    /\ err # "load"
    /\ (pc = "ready" /\ file0.kind # "json") => seen = {}

Affirmative == { <<"s">>, <<"S">>, <<" ", "s", " ">> }

Confirmed == asked = 1 /\ answer # <<>> /\ answer[1] \in Affirmative

-----------------------------------------------------------------------------
(* The store specification: JsonDataStore objects used directly through    *)
(* their interface (constructor, load, save) over the history file, with   *)
(* no input or output error and no kill.                                   *)

(* Number of calls made on the store. *)
MaxCalls == 4

StoreRecords == Range(parse(<<RowTalk, RowTutorial>>))

NoSpeaker == Speaker(<<>>, <<>>, <<>>, <<>>, <<>>, PALESTRA)

DetailCount(d) == IF d.details.tag = "list" THEN Len(d.details.v) ELSE 0

Call(op, speaker, out, raised, d) ==
    [op |-> op, speaker |-> speaker, out |-> out, raised |-> raised,
     details |-> DetailCount(d)]

campaignVars == <<config, seen, dry, roster, speakers, new, idx, success,
                  failures, diag, fetched, asked, answer, attempts, results,
                  writes, err, summary, killedAt, file0, seen0, ok0, runs,
                  okCount, crashed, bodies>>

(* JsonDataStore.__init__ *)
StoreNew ==
    /\ pc \in {"off", "store"}
    /\ Len(calls) < MaxCalls
    /\ data' = _load_data(file)
    /\ pc' = "store"
    /\ calls' = Append(calls, Call("new", NoSpeaker, {}, FALSE, data'))
    /\ UNCHANGED <<file, campaignVars>>

(* JsonDataStore.load *)
StoreLoad ==
    /\ pc = "store"
    /\ Len(calls) < MaxCalls
    /\ calls' = Append(calls,
                       IF LoadRaises(data)
                       THEN Call("load", NoSpeaker, {}, TRUE, data)
                       ELSE Call("load", NoSpeaker, load(data), FALSE, data))
    /\ UNCHANGED <<file, data, pc, campaignVars>>

(* JsonDataStore.save: the load inside it may raise, the append may raise, *)
(* otherwise the structure is written.                                     *)
StoreSave(speaker, order) ==
    /\ pc = "store"
    /\ Len(calls) < MaxCalls
    /\ IF LoadRaises(data)
       THEN /\ order = <<>>
            /\ UNCHANGED <<data, file>>
            /\ calls' = Append(calls, Call("save", speaker, {}, TRUE, data))
       ELSE /\ order \in ListsOf(SaveTitles(data, speaker))
            /\ LET d1 == SaveData(data, speaker, order)
               IN  IF AppendRaises(d1)
                   THEN /\ data' = d1
                        /\ file' = file
                        /\ calls' = Append(calls,
                                       Call("save", speaker, {}, TRUE, d1))
                   ELSE /\ data' = AppendDetail(d1, speaker)
                        /\ file' = Dump(data')
                        /\ calls' = Append(calls,
                                       Call("save", speaker, {}, FALSE, data'))
    /\ UNCHANGED <<pc, campaignVars>>

StoreNext ==
    \/ StoreNew
    \/ StoreLoad
    \/ \E speaker \in StoreRecords,
          order \in UNION {ListsOf(S) : S \in SUBSET Titles} :
            StoreSave(speaker, order)

StoreSpec == Init /\ [][StoreNext]_vars

(* How often x occurs in the sequence q. *)
Occurs(q, x) == Cardinality({k \in 1..Len(q) : q[k] = x})

(* C11: after two consecutive saves of Records with the same subject_key,  *)
(* whatever the store held, neither save raised, sent_titles and load()    *)
(* hold the key exactly once, and the detail log is two entries longer.    *)
C11SaveIdempotent ==
    LET n == Len(calls)
    IN  ( /\ n >= 3
          /\ calls[n].op = "save" /\ calls[n - 1].op = "save"
          /\ calls[n].speaker.title = calls[n - 1].speaker.title )
        => /\ ~calls[n - 1].raised /\ ~calls[n].raised
           /\ Occurs(data.sent.v, calls[n].speaker.title) = 1
           /\ ~LoadRaises(data) /\ calls[n].speaker.title \in load(data)
           /\ calls[n].details = calls[n - 2].details + 2

(* C12: save(record) followed by load() on a new JsonDataStore over the    *)
(* same file: neither raises, and load() returns record.subject_key and    *)
(* every key an earlier load() returned.                                   *)
C12RoundTrip ==
    \A i \in 1..Len(calls) :
        ( /\ i + 2 <= Len(calls)
          /\ calls[i].op = "save"
          /\ calls[i + 1].op = "new" /\ calls[i + 2].op = "load" )
        => /\ ~calls[i].raised /\ ~calls[i + 2].raised
           /\ calls[i].speaker.title \in calls[i + 2].out
           /\ \A h \in 1..(i - 1) :
                (calls[h].op = "load" /\ ~calls[h].raised)
                => calls[h].out \subseteq calls[i + 2].out

-----------------------------------------------------------------------------
(* The parser specification: CsvParser.parse reads a sheet row by row, and *)
(* each Record it produced is rendered.                                    *)

(* Number of data rows in the sheet. *)
MaxRows == 2

Ana == <<"Ana">>
Caio == <<"Caio">>
SilvaJr == <<"Silva", ",", " ", "Jr">>
ThreeCandidates == <<"a", "@", "x.com", ",", " ", "nobody", ",",
                     "b", "@", "y.com", " ">>

(* Full rows: every column holds text. *)
FullRows ==
    { Row(a, t, e, au[1], au[2], au[3]) :
        a \in { <<" ">>, <<"Tutorial">> },
        t \in { <<>>, <<" ", "Intro to Types", " ">> },
        e \in { <<" ">>, <<"a", "@", "x.com">>, ThreeCandidates },
        au \in { << <<>>, <<" ">>, <<>> >>,
                 << Ana, <<>>, <<>> >>,
                 << Ana, <<" ">>, Caio >>,
                 << <<>>, SilvaJr, <<>> >> } }

(* Short rows: the row ends before the last columns of the header. *)
ShortRows ==
    { Row(<<"Palestra">>, NoneCell, <<>>, Ana, <<>>, <<>>),
      Row(<<"Palestra">>, AsyncPatterns, <<"a", "@", "x.com">>, Ana, <<>>,
          NoneCell),
      Row(<<>>, NoneCell, NoneCell, NoneCell, NoneCell, NoneCell) }

RowCases == FullRows \cup ShortRows

ParserInit == Init /\ file = FileAbsent

sheetVars == <<file, pc, config, data, seen, dry, new, idx, success, failures,
               diag, fetched, asked, answer, attempts, results, writes,
               summary, killedAt, file0, seen0, ok0, runs, okCount, crashed,
               calls>>

(* CsvParser.parse, lines 201-203: one turn of the loop over the rows. *)
ParseRow(row) ==
    /\ err = "none"
    /\ Len(roster) < MaxRows
    /\ Len(bodies) = Len(speakers)
    /\ roster' = Append(roster, row)
    /\ IF RowRaises(row)
       THEN err' = "parse" /\ speakers' = speakers
       ELSE err' = "none" /\ speakers' = speakers \o _parse_row(row)
    /\ UNCHANGED <<bodies, sheetVars>>

(* EmailTemplate.render on the next Record. *)
RenderNext ==
    /\ Len(bodies) < Len(speakers)
    /\ bodies' = Append(bodies, render(speakers[Len(bodies) + 1]))
    /\ UNCHANGED <<roster, speakers, err, sheetVars>>

ParserNext ==
    \/ \E row \in RowCases : ParseRow(row)
    \/ RenderNext

ParserSpec == ParserInit /\ [][ParserNext]_vars

(* Statements about rows, written without the parser's operators. *)
(* A cell that is missing or empty after trimming. *)
Blank(cell) == cell = NoneCell \/ \A k \in 1..Len(cell) : cell[k] = " "

Trim(cell) ==
    LET inked == {k \in 1..Len(cell) : cell[k] # " "}
    IN  IF inked = {} THEN <<>>
        ELSE SubSeq(cell, CHOOSE k \in inked : \A j \in inked : k <= j,
                          CHOOSE k \in inked : \A j \in inked : k >= j)

AuthorCells(row) == <<row.AUTOR1, row.AUTOR2, row.AUTOR3>>

AuthorNames(row) ==
    LET named == SelectSeq(AuthorCells(row), LAMBDA c : ~Blank(c))
    IN  [k \in 1..Len(named) |-> Trim(named[k])]

Skippable(row) ==
    \/ Blank(row.ATIVIDADE)
    \/ Blank(row.TEMA)
    \/ Blank(row.EMAIL)
    \/ \A k \in 1..3 : Blank(AuthorCells(row)[k])

RemoveAt(q, i) == SubSeq(q, 1, i - 1) \o SubSeq(q, i + 1, Len(q))

(* C13: a row in which activity, theme or email is empty after trimming,   *)
(* or that names no author, makes parse raise nothing and gives the same   *)
(* Records as the sheet without that row.                                  *)
C13RowSkipping ==
    \A i \in 1..Len(roster) :
        Skippable(roster[i]) =>
            /\ ~(err = "parse" /\ i = Len(roster))
            /\ err = "none" => speakers = parse(RemoveAt(roster, i))

(* The candidate addresses of an EMAIL cell: the trimmed pieces between    *)
(* its commas, from left to right.                                         *)
Candidates(cell) ==
    LET t      == Trim(cell)
        commas == {k \in 1..Len(t) : t[k] = ","}
        starts == {1} \cup {k + 1 : k \in commas}
        nth(n) == CHOOSE b \in starts : Cardinality({a \in starts : a < b}) = n - 1
        stop(b) == IF \E k \in commas : k >= b
                   THEN (CHOOSE k \in commas : k >= b /\ \A j \in commas : j >= b => k <= j) - 1
                   ELSE Len(t)
    IN  [n \in 1..Cardinality(starts) |-> Trim(SubSeq(t, nth(n), stop(nth(n))))]

(* <<name, email, subject_key>> of the Records the claim gives a row. *)
ExpectedRow(row) ==
    IF Skippable(row) THEN <<>>
    ELSE LET authors == AuthorNames(row)
             e       == Candidates(row.EMAIL)
             kept    == SelectSeq([i \in 1..Len(e) |-> i],
                                  LAMBDA i : "@" \in Range(e[i]))
         IN  [n \in 1..Len(kept) |->
                <<IF kept[n] <= Len(authors) THEN authors[kept[n]] ELSE authors[1],
                  e[kept[n]], Trim(row.TEMA)>>]

RECURSIVE ExpectedAll(_)
ExpectedAll(rows) == IF rows = <<>> THEN <<>>
                     ELSE ExpectedRow(Head(rows)) \o ExpectedAll(Tail(rows))

Emitted == [k \in 1..Len(speakers) |->
              <<speakers[k].name, speakers[k].email, speakers[k].title>>]

(* C14: a valid row gives one Record per candidate address containing '@', *)
(* named authors[i] if that author exists and authors[0] otherwise, all    *)
(* with the row's subject_key; Records come in row order and, within a     *)
(* row, in email-list order.                                               *)
C14AuthorAssignment ==
    /\ err = "parse" => Skippable(Last(roster))
    /\ err = "none" => Emitted = ExpectedAll(roster)

(* The row that produced Record k. *)
RowOf(k) ==
    CHOOSE i \in 1..Len(roster) :
        /\ Len(parse(SubSeq(roster, 1, i))) >= k
        /\ Len(parse(SubSeq(roster, 1, i - 1))) < k

HasPart(text, part) ==
    \E j \in 1..(Len(text) - Len(part) + 1) :
        SubSeq(text, j, j + Len(part) - 1) = part

(* C15: the message of a Record holds the co-author line exactly when the  *)
(* row recorded more than one author name, whatever characters a name      *)
(* contains; with several authors the line holds all names comma-joined.   *)
C15CoauthorLine ==
    \A k \in 1..Len(bodies) :
        LET names == AuthorNames(roster[RowOf(k)])
        IN  IF Len(names) > 1
            THEN HasPart(bodies[k], <<CoauthorsLabel>> \o JoinCommaSpace(names))
            ELSE ~HasPart(bodies[k], <<CoauthorsLabel>>)

-----------------------------------------------------------------------------
(* Properties of the campaign, continued.                                  *)

(* The n-th smallest member of a finite set of numbers. *)
Nth(S, n) == CHOOSE b \in S : Cardinality({a \in S : a < b}) = n - 1

(* Positions in new of the Records whose send returned true in this run,   *)
(* in the order of the sends: those recorded as sent, and the Record at    *)
(* idx while its save is under way or has failed.                          *)
SaveUnderWay ==
    \/ pc \in {"save", "dump"}
    \/ pc = "raised" /\ err = "save"
    \/ pc = "killed" /\ killedAt \in {"save", "dump"}

OkSends ==
    LET done == {k \in 1..Len(results) : results[k] = "sent"}
        all  == IF SaveUnderWay THEN done \cup {idx} ELSE done
    IN  [n \in 1..Cardinality(all) |-> new[Nth(all, n)].title]

(* C16: new is the Records whose subject_key is not in the seen set loaded *)
(* at construction, in ingestion order; the dispatch attempts of a live    *)
(* run follow the order of new with no Record attempted twice; the store   *)
(* writes follow the order of the successful sends.                        *)
C16ProcessingOrder ==
    /\ LET keep == {k \in 1..Len(speakers) : speakers[k].title \notin seen0}
       IN  /\ Len(new) = Cardinality(keep)
           /\ \A n \in 1..Len(new) : new[n] = speakers[Nth(keep, n)]
    /\ \A n \in 1..Len(attempts) :
          /\ attempts[n] \in 1..Len(new)
          /\ n > 1 => attempts[n - 1] < attempts[n]
    /\ attempts # <<>> => ~dry
    /\ \/ writes = OkSends
       \/ SaveUnderWay /\ writes = Front(OkSends)
    /\ pc \in {"loop", "done"} => writes = OkSends

C16Witness ==
    /\ pc = "done" /\ summary /\ ~dry
    /\ Len(new) < Len(speakers)
    /\ attempts = <<1, 2>>
    /\ results = <<"failed", "sent">>
    /\ writes = <<IntroToTypes>>

(* The points between two Records of a run: before each dispatch decision  *)
(* and at the summary.                                                     *)
BetweenRecords == pc = "loop" \/ (pc = "done" /\ summary)

(* C17: in a live run without store errors, between two Records the seen   *)
(* set in memory is what load() of a new JsonDataStore over the file       *)
(* returns.                                                                *)
C17MemoryStoreAgreement ==
    (BetweenRecords /\ ~dry /\ err = "none") =>
        /\ ~LoadRaises(_load_data(file))
        /\ seen = FreshLoad(file)

C17Witness ==
    /\ pc = "loop" /\ ~dry /\ err = "none"
    /\ idx <= Len(new)
    /\ writes # <<>>
    /\ seen # seen0
    /\ seen = FreshLoad(file)

(* save raised in this process, after the send of new[idx] returned true. *)
C18State ==
    err = "save" =>
        /\ pc = "raised"
        /\ ~summary
        /\ idx <= Len(new)
        /\ attempts # <<>> /\ Last(attempts) = idx
        /\ Len(results) = idx - 1
        /\ okCount[new[idx].title] > ok0[new[idx].title]
        /\ new[idx].title \notin seen
        /\ ~LoadRaises(_load_data(file))
        /\ new[idx].title \notin FreshLoad(file)

(* The next process does not hold the title in its seen set, and a live    *)
(* run that reaches a Record whose title it does not hold hands it to      *)
(* EmailService.send, also when an earlier process has sent it.            *)
C18Step ==
    /\ (err = "save" /\ pc' = "ready") => new[idx].title \notin seen'
    /\ (/\ pc = "loop" /\ idx <= Len(new) /\ ~dry
        /\ new[idx].title \notin seen
        /\ pc' # "killed")
       => (pc' = "sending" /\ attempts' = Append(attempts, idx))

(* C18: when save raises after a dispatch returned true, the error leaves  *)
(* run(), the remaining Records are not processed, no summary is logged,   *)
(* the title is neither in the seen set nor in the file, and the next live *)
(* run that meets the subject dispatches it again.                         *)
C18PersistFailure == []C18State /\ [][C18Step]_vars

C18Witness ==
    /\ err = "save" /\ pc = "raised"
    /\ idx < Len(new)
    /\ okCount[new[idx].title] = 1
    /\ results = <<>>

=============================================================================
